---- MODULE Spec2Model ----
(***************************************************************************)
(* Model of metsearch's incremental result cache and fetch scheduler:      *)
(* ObjectCache (objectcache.py), its pacing Timer (timer.py) and the two   *)
(* entry points of ObjectsModel (model.py) that drive it, search and       *)
(* fetchMore.                                                              *)
(*                                                                         *)
(* The Qt event loop is single threaded: every handler (a search, a        *)
(* fetchMore, one timer timeout, one finished reply) runs to completion,   *)
(* so each is one action.  Replies of issued requests complete in any      *)
(* order and with any outcome.                                             *)
(***************************************************************************)
EXTENDS Integers, Sequences, FiniteSets, TLC

\* ------------------------------------------------------------------------
\* Bounds of the model
\* ------------------------------------------------------------------------

\* Number of distinct object ids the search service can return.
MaxIds == 3

\* Number of ObjectsModel.search calls in a run.
MaxSearches == 2

\* Number of ObjectsModel.fetchMore calls in a run.
MaxFetchMore == 2

\* Length of the longest result list in the runs of one search that page
\* through it: long enough for two fetchMore calls to find rows left.
MaxLongIds == 7

\* Requests.SECONDS, the number of ticks timer_timeout counts before it
\* calls process_queue.  The program sets 60 (contants.py); the handlers only
\* compare with it and subtract from it, and the model takes a short period.
SECONDS == 2

\* Requests.MAX_RESULTS, the page size.  The program sets 80 (contants.py);
\* the handlers only slice and compare with it, and the model takes small
\* pages, so that a list of MaxIds ids spans more than one page.
MAX_RESULTS == 2

\* Number of distinct image urls the documents carry.
MaxImageUrls == 2

\* Number of ImageCache.get_pixmap calls per image url in a run.
MaxGetPixmap == 3

\* ------------------------------------------------------------------------
\* Values
\* ------------------------------------------------------------------------

ObjectIds == 1..MaxIds

\* f"{Endpoints.BASE}{Endpoints.OBJECTS}/{object_id}"
Url(object_id) == <<"/objects", object_id>>

\* A document is modelled by the set of its field names; {} is the empty dict.
EmptyDocument == {}

\* json.loads of the body of a successful reply for url.
Document(url) == {"objectID", "title"}

\* Python truthiness of a dict.
Truthy(document) == document # {}

\* The lists of object ids a search can return: the service returns each
\* matching object once; the lists taken here are the runs a, a+1, .., b of
\* the catalogue, and the empty list.
IdLists ==
    { [i \in 1..(b - a + 1) |-> a + i - 1] : a \in ObjectIds, b \in 0..MaxIds }

\* What requests.get(url, params) gives populate: an HTTP error status, or
\* a body whose "objectIDs" is a list (empty when nothing matches).
Responses ==
    { [ok |-> FALSE, objectIDs |-> <<>>] } \cup
    { [ok |-> TRUE, objectIDs |-> ids] : ids \in IdLists }

SearchTerms == {"", "apple"}

\* QNetworkReply.error() values that cache_object tells apart.
NetworkErrors ==
    {"NoError", "ContentNotFoundError", "ContentAccessDenied", "OtherError"}

\* reply.readAll(): no bytes, a JSON document, text that is not JSON, or
\* bytes that are not UTF-8.
Bodies == {"empty", "json", "not_json", "not_utf8"}

\* The image urls found in the documents (ObjectFields.PRIMARY_IMAGE).
ImageUrls == { <<"/image", i>> : i \in 1..MaxImageUrls }

\* QNetworkReply.error() values that cache_pixmap tells apart.
ImageErrors ==
    {"NoError", "ContentNotFoundError", "ContentAccessDenied",
     "UnknownContentError", "OtherError"}

\* reply.readAll(): no bytes, the bytes of an image, text (an error page), or
\* other bytes that are neither an image nor UTF-8.
ImageBodies == {"empty", "image", "text", "binary"}

\* ImageCache.default_pixmap, the one transparent pixmap of the class.
DefaultPixmap == <<"default_pixmap">>

\* QPixmap().loadFromData(byte_array) then scaled(WIDTH, HEIGHT, ..) for the
\* bytes served at url: the scaled image, or the null pixmap when the bytes
\* are not an image.
Pixmap(url, body) ==
    IF body = "image" THEN <<"pixmap", url>> ELSE <<"null_pixmap">>

Min(a, b) == IF a < b THEN a ELSE b

Max(S) == CHOOSE x \in S : \A y \in S : y <= x

\* Python s[first:last] for first >= 0 and last >= 0.
Slice(s, first, last) ==
    IF first >= Min(last, Len(s)) THEN <<>>
    ELSE SubSeq(s, first + 1, Min(last, Len(s)))

Range(s) == { s[i] : i \in 1..Len(s) }

\* ------------------------------------------------------------------------
\* State
\* ------------------------------------------------------------------------

VARIABLES
    bad_urls,            \* ObjectCache._bad_urls
    last_index,          \* ObjectCache._last_index
    urls,                \* ObjectCache._urls
    objects,             \* ObjectCache._objects
    queue,               \* ObjectCache._queue
    requested_urls,      \* ObjectCache._requested_urls
    processed_requests,  \* ObjectCache._processed_requests
    timer_count,         \* Timer._count
    timer_active,        \* QTimer.isActive()
    replies,             \* requests issued whose reply has not finished
    hist,                \* history: logs and counters over the whole run
    images,              \* MainWindow._images, the ImageCache
    image_hist           \* history of the image cache over the whole run

vars == <<bad_urls, last_index, urls, objects, queue, requested_urls,
          processed_requests, timer_count, timer_active, replies, hist,
          images, image_hist>>

\* The state of the cache as one record, as the handlers below transform it.
\* signals, issued and batches collect what the running handler emits,
\* requests and enqueues.
self ==
    [bad_urls |-> bad_urls,
     last_index |-> last_index,
     urls |-> urls,
     objects |-> objects,
     queue |-> queue,
     requested_urls |-> requested_urls,
     processed_requests |-> processed_requests,
     timer_count |-> timer_count,
     timer_active |-> timer_active,
     replies |-> replies,
     signals |-> <<>>,
     issued |-> <<>>,
     batches |-> <<>>]

\* ------------------------------------------------------------------------
\* Timer (timer.py)
\* ------------------------------------------------------------------------

\* Timer.start leaving the count where it is.
TimerStart_keeps_count(s) == [s EXCEPT !.timer_active = TRUE]

TimerStart(s) == [s EXCEPT !.timer_count = 0, !.timer_active = TRUE]

TimerStop(s) == [s EXCEPT !.timer_count = 0, !.timer_active = FALSE]

\* ------------------------------------------------------------------------
\* ObjectCache (objectcache.py)
\* ------------------------------------------------------------------------

Request(key, url) == [key |-> key, url |-> url]

\* extend_queue numbering the batch after the batches waiting in the queue.
extend_queue_key_from_queue(s, us) ==
    LET key == Len(s.queue) + 1
        requests == [i \in 1..Len(us) |-> Request(key, us[i])]
    IN [s EXCEPT
          !.processed_requests = @ @@ (key :> [count |-> 0, total |-> Len(us)]),
          !.requested_urls = @ \o us,
          !.queue = Append(@, requests),
          !.batches = Append(@, [key |-> key, requests |-> requests,
                                 ahead |-> Len(s.queue)])]

extend_queue(s, us) ==
    LET key == Max(DOMAIN s.processed_requests) + 1
        requests == [i \in 1..Len(us) |-> Request(key, us[i])]
    IN [s EXCEPT
          !.processed_requests = @ @@ (key :> [count |-> 0, total |-> Len(us)]),
          !.requested_urls = @ \o us,
          !.queue = Append(@, requests),
          !.batches = Append(@, [key |-> key, requests |-> requests,
                                 ahead |-> Len(s.queue)])]

\* network_manager.get(request), reply.finished connected to cache_object.
execute_request(s, request) ==
    [s EXCEPT !.replies = @ \cup {request},
              !.issued = Append(@, request)]

RECURSIVE execute_requests(_, _)
execute_requests(s, requests) ==
    IF requests = <<>> THEN s
    ELSE execute_requests(execute_request(s, Head(requests)), Tail(requests))

\* process_queue leaving the timer stopped when there is nothing to pop.
process_queue_unless_empty(s) ==
    IF s.queue # <<>>
    THEN TimerStart(execute_requests([s EXCEPT !.queue = Tail(@)],
                                     Head(s.queue)))
    ELSE s

\* process_queue popping the batch behind the head as well.
process_queue_two(s) ==
    LET s1 == IF s.queue # <<>>
              THEN execute_requests([s EXCEPT !.queue = Tail(@)], Head(s.queue))
              ELSE s
        s2 == IF s1.queue # <<>>
              THEN execute_requests([s1 EXCEPT !.queue = Tail(@)],
                                    Head(s1.queue))
              ELSE s1
    IN TimerStart(s2)

\* process_queue taking the newest batch instead of the oldest.
process_queue_newest_first(s) ==
    LET n == Len(s.queue)
        s1 == IF s.queue # <<>>
              THEN execute_requests([s EXCEPT !.queue = SubSeq(@, 1, n - 1)],
                                    s.queue[n])
              ELSE s
    IN TimerStart(s1)

process_queue(s) ==
    LET s1 == IF s.queue # <<>>
              THEN execute_requests([s EXCEPT !.queue = Tail(@)], Head(s.queue))
              ELSE s
    IN TimerStart(s1)

\* reset clearing the url list only.
reset_urls_only(s) == [s EXCEPT !.urls = <<>>]

\* get_object storing the empty document it returns for an unknown url.
get_object_setdefault(s, url) ==
    IF url \in DOMAIN s.objects
    THEN [state |-> s, result |-> s.objects[url]]
    ELSE [state |-> [s EXCEPT !.objects = [u \in DOMAIN @ \cup {url} |->
                                             IF u = url THEN EmptyDocument
                                             ELSE @[u]]],
          result |-> EmptyDocument]

\* self._objects.get(url, {}): the cache it leaves and the value it returns.
get_object(s, url) ==
    [state |-> s,
     result |-> IF url \in DOMAIN s.objects THEN s.objects[url]
                ELSE EmptyDocument]

reset(s) == [s EXCEPT !.urls = <<>>, !.last_index = -1]

\* populate storing an empty document for the urls of the first page only.
populate_first_page_entries(s, response) ==
    IF ~response.ok THEN s
    ELSE IF response.objectIDs = <<>> THEN s
    ELSE
      LET ids == response.objectIDs
          new == [i \in 1..Len(ids) |-> Url(ids[i])]
          s1 == [s EXCEPT !.urls = @ \o new]
          page == Slice(s1.urls, 0, MAX_RESULTS)
          s2 == extend_queue([s1 EXCEPT
                                !.objects = [u \in DOMAIN @ \cup Range(page) |->
                                               IF u \in Range(page)
                                               THEN EmptyDocument ELSE @[u]]],
                             page)
          s3 == [s2 EXCEPT !.last_index = @ + Len(page)]
      IN process_queue(s3)

populate(s, response) ==
    IF ~response.ok THEN s
    ELSE IF response.objectIDs = <<>> THEN s
    ELSE
      LET ids == response.objectIDs
          new == [i \in 1..Len(ids) |-> Url(ids[i])]
          s1 == [s EXCEPT
                   !.urls = @ \o new,
                   !.objects = [u \in DOMAIN @ \cup Range(new) |->
                                  IF u \in Range(new) THEN EmptyDocument
                                  ELSE @[u]]]
          page == Slice(s1.urls, 0, MAX_RESULTS)
          s2 == extend_queue(s1, page)
          s3 == [s2 EXCEPT !.last_index = @ + Len(page)]
      IN process_queue(s3)

\* The outcome of cache_object's if/elif/else on the reply.
\*   "document": the body is stored;  "bad": the url is appended to bad_urls;
\*   "raise": str(.., "utf-8") or json.loads raises, the handler ends there.
ReplyOutcome(error, body) ==
    IF error = "NoError"
    THEN IF body # "empty"
         THEN IF body = "json" THEN "document" ELSE "raise"
         ELSE "bad"
    ELSE IF error \in {"ContentNotFoundError", "ContentAccessDenied"}
            \/ body = "empty"
         THEN "bad"
         ELSE IF body = "not_utf8" THEN "raise" ELSE "bad"

cache_object(s, reply, error, body) ==
    LET url == reply.url
        key == reply.key
        outcome == ReplyOutcome(error, body)
        s0 == [s EXCEPT !.replies = @ \ {reply}]
        s1 == IF outcome = "document"
              THEN [s0 EXCEPT
                      !.objects = [u \in DOMAIN @ \cup {url} |->
                                     IF u = url THEN Document(url) ELSE @[u]],
                      !.signals = Append(@, [signal |-> "cache_updated",
                                             arg |-> url])]
              ELSE [s0 EXCEPT
                      !.bad_urls = Append(@, url),
                      !.signals = Append(@, [signal |-> "cache_updated",
                                             arg |-> url])]
        count == s1.processed_requests[key].count + 1
        s2 == [s1 EXCEPT !.processed_requests[key].count = count]
    IN IF outcome = "raise" THEN s0
       ELSE IF count = s2.processed_requests[key].total
            THEN [s2 EXCEPT !.signals = Append(@, [signal |-> "requests_finished",
                                                   arg |-> key])]
            ELSE s2

\* timer_timeout calling process_queue one tick early.
timer_timeout_early(s) ==
    LET s1 == IF s.timer_count = SECONDS - 1
              THEN process_queue(TimerStop(s))
              ELSE [s EXCEPT !.timer_count = @ + 1]
    IN [s1 EXCEPT !.signals = Append(@, [signal |-> "timer_progress",
                                         arg |-> SECONDS - s1.timer_count])]

\* timer_timeout emitting the time that was left when the tick arrived.
timer_timeout_before(s) ==
    LET s1 == IF s.timer_count = SECONDS
              THEN process_queue(TimerStop(s))
              ELSE [s EXCEPT !.timer_count = @ + 1]
    IN [s1 EXCEPT !.signals = Append(@, [signal |-> "timer_progress",
                                         arg |-> SECONDS - s.timer_count])]

timer_timeout(s) ==
    LET s1 == IF s.timer_count = SECONDS
              THEN process_queue(TimerStop(s))
              ELSE [s EXCEPT !.timer_count = @ + 1]
    IN [s1 EXCEPT !.signals = Append(@, [signal |-> "timer_progress",
                                         arg |-> SECONDS - s1.timer_count])]

\* ------------------------------------------------------------------------
\* ObjectsModel (model.py)
\* ------------------------------------------------------------------------

canFetchMore(s) == s.last_index + 1 < Len(s.urls)

\* The bounds first, last that fetchMore computes for its slice of the urls.
SliceBounds(s) ==
    LET first == s.last_index + 1
        remaining == Len(s.urls) - first
    IN [first |-> first,
        last |-> IF remaining > MAX_RESULTS
                 THEN first + MAX_RESULTS
                 ELSE first + remaining]

fetchMore(s) ==
    LET first == SliceBounds(s).first
        lastRow == SliceBounds(s).last
        us == Slice(s.urls, first, lastRow)
        s1 == [s EXCEPT !.last_index = @ + Len(us)]
        s2 == extend_queue(s1, us)
        s3 == [s2 EXCEPT !.last_index = @ + Len(us)]
    IN IF first = Len(s.urls) THEN s ELSE s3

search(s, search_term, response) ==
    LET s1 == reset(s)
    IN IF search_term = "" THEN s1 ELSE populate(s1, response)

\* ------------------------------------------------------------------------
\* ImageCache (imagecache.py)
\* ------------------------------------------------------------------------

\* d[k] = v on a dict.
Put(d, k, v) == [x \in DOMAIN d \cup {k} |-> IF x = k THEN v ELSE d[x]]

handle_failure(s, url, default_pixmap) ==
    [s EXCEPT !.bad_urls = Append(@, url),
              !.images = Put(@, url, default_pixmap)]

\* The outcome of cache_pixmap's if/elif/else on the reply.
\*   "pixmap": a pixmap is made from the body and stored;
\*   "failure": handle_failure is called;
\*   "raise": str(.., "utf-8") for the log line raises on bytes that are not
\*            UTF-8 (the bytes of an image are not), the handler ends there.
PixmapOutcome(error, body) ==
    IF error = "NoError"
    THEN IF body # "empty" THEN "pixmap" ELSE "failure"
    ELSE IF error \in {"ContentNotFoundError", "ContentAccessDenied",
                       "UnknownContentError"}
            \/ body = "empty"
         THEN "failure"
         ELSE IF body \in {"image", "binary"} THEN "raise" ELSE "failure"

\* url is reply.url().toString().  image_updated has no slot connected.
cache_pixmap(s, url, error, body, default_pixmap) ==
    LET outcome == PixmapOutcome(error, body)
    IN IF outcome = "pixmap"
       THEN [s EXCEPT !.images = Put(@, url, Pixmap(url, body))]
       ELSE IF outcome = "failure"
            THEN handle_failure(s, url, default_pixmap)
            ELSE s

\* get_pixmap requesting the image on every call.
get_pixmap_always_requests(s, url) ==
    [state |-> [s EXCEPT !.requested_images = Append(@, url),
                         !.replies = Append(@, url)],
     result |-> IF url \in DOMAIN s.images THEN s.images[url]
                ELSE DefaultPixmap]

\* The cache get_pixmap leaves and the pixmap it returns.  replies holds the
\* url of each request passed to network_manager.get whose reply has not
\* finished.
get_pixmap(s, url) ==
    IF url \in Range(s.requested_images)
    THEN [state |-> s,
          result |-> IF url \in DOMAIN s.images THEN s.images[url]
                     ELSE DefaultPixmap]
    ELSE [state |-> [s EXCEPT !.requested_images = Append(@, url),
                              !.replies = Append(@, url)],
          result |-> DefaultPixmap]

\* ------------------------------------------------------------------------
\* History
\* ------------------------------------------------------------------------

\* How many of the signals a handler emitted are signal(arg).
Emitted(signals, signal, arg) ==
    Cardinality({ i \in 1..Len(signals) :
                    signals[i].signal = signal /\ signals[i].arg = arg })

Args(signals, signal) ==
    { signals[i].arg : i \in { j \in 1..Len(signals) :
                                 signals[j].signal = signal } }

\* f extended to the keys ks, each new key mapped to v.
Extend(f, ks, v) ==
    [k \in DOMAIN f \cup ks |-> IF k \in DOMAIN f THEN f[k] ELSE v]

\* hist after the handler op turned the state into s.
\*   generation  number of searches started so far
\*   fetches     number of fetchMore calls so far
\*   enqueued    every batch passed to queue.append, in order, with its key
\*               and the number of batches that were ahead of it in the queue
\*   issued      every request passed to execute_request, in order
\*   enq_gen     batch key -> generation in which the batch was enqueued
\*   finished    batch key -> number of requests_finished signals for it
\*   updated     url -> number of cache_updated signals for it
\*   mark        how many requests had been issued when the last search began
\*   tick        the last timer_timeout: the timer count and the queue length
\*               it found, and the timer_progress values it emitted
Tagged(batches, op) ==
    [i \in 1..Len(batches) |->
       [key |-> batches[i].key, requests |-> batches[i].requests,
        ahead |-> batches[i].ahead, by |-> op]]

Progress(signals) ==
    LET at == { i \in 1..Len(signals) : signals[i].signal = "timer_progress" }
    IN IF at = {} THEN <<>> ELSE <<signals[Max(at)].arg>>

Record(h, pre, s, op) ==
    LET gen == IF op = "search" THEN h.generation + 1 ELSE h.generation
        finished == Extend(h.finished, Args(s.signals, "requests_finished"), 0)
        updated == Extend(h.updated, Args(s.signals, "cache_updated"), 0)
    IN [generation |-> gen,
        fetches |-> IF op = "fetchMore" THEN h.fetches + 1 ELSE h.fetches,
        enqueued |-> h.enqueued \o Tagged(s.batches, op),
        issued |-> h.issued \o s.issued,
        mark |-> IF op = "search" THEN Len(h.issued) ELSE h.mark,
        enq_gen |-> Extend(h.enq_gen, DOMAIN s.processed_requests \ {0}, gen),
        finished |-> [k \in DOMAIN finished |->
                        finished[k] + Emitted(s.signals, "requests_finished", k)],
        updated |-> [u \in DOMAIN updated |->
                       updated[u] + Emitted(s.signals, "cache_updated", u)],
        tick |-> IF op = "timer_timeout"
                 THEN [elapsed |-> pre.timer_count,
                       queued |-> Len(pre.queue),
                       progress |-> Progress(s.signals)]
                 ELSE h.tick]

\* The handler op turned the state into s.
Commit(s, op) ==
    /\ bad_urls' = s.bad_urls
    /\ last_index' = s.last_index
    /\ urls' = s.urls
    /\ objects' = s.objects
    /\ queue' = s.queue
    /\ requested_urls' = s.requested_urls
    /\ processed_requests' = s.processed_requests
    /\ timer_count' = s.timer_count
    /\ timer_active' = s.timer_active
    /\ replies' = s.replies
    /\ hist' = Record(hist, self, s, op)
    /\ UNCHANGED <<images, image_hist>>

\* ------------------------------------------------------------------------
\* Specification
\* ------------------------------------------------------------------------

Init ==
    /\ bad_urls = <<>>
    /\ last_index = -1
    /\ urls = <<>>
    /\ objects = <<>>
    /\ queue = <<>>
    /\ requested_urls = <<>>
    /\ processed_requests = (0 :> [count |-> 0, total |-> 0])
    /\ timer_count = 0
    /\ timer_active = FALSE
    /\ replies = {}
    /\ hist = [generation |-> 0, fetches |-> 0, enqueued |-> <<>>,
               issued |-> <<>>, mark |-> 0, enq_gen |-> <<>>,
               finished |-> <<>>, updated |-> <<>>,
               tick |-> [elapsed |-> 0, queued |-> 0, progress |-> <<>>]]
    /\ images = [bad_urls |-> <<>>, images |-> <<>>,
                 requested_images |-> <<>>, replies |-> <<>>]
    /\ image_hist = [calls |-> [url \in ImageUrls |-> 0],
                     issued |-> [url \in ImageUrls |-> 0],
                     arrived |-> [url \in ImageUrls |-> <<>>]]

\* MainWindow.search_text_changed -> ObjectsModel.search
Search ==
    /\ hist.generation < MaxSearches
    /\ \E search_term \in SearchTerms, response \in Responses :
         Commit(search(self, search_term, response), "search")

\* The view asks for more rows -> ObjectsModel.fetchMore
FetchMore ==
    /\ hist.fetches < MaxFetchMore
    /\ Commit(fetchMore(self), "fetchMore")

\* The reply of an issued request finishes -> ObjectCache.cache_object
CacheObject ==
    \E reply \in replies, error \in NetworkErrors, body \in Bodies :
        Commit(cache_object(self, reply, error, body), "cache_object")

\* The running timer times out -> ObjectCache.timer_timeout
TimerTimeout ==
    /\ timer_active
    /\ Commit(timer_timeout(self), "timer_timeout")

Next == Search \/ FetchMore \/ CacheObject \/ TimerTimeout

Spec == Init /\ [][Next]_vars

\* One search over a long result list, paged through by fetchMore.
LongResponses ==
    { [ok |-> TRUE, objectIDs |-> [i \in 1..n |-> i]] : n \in 1..MaxLongIds }

SearchLong ==
    /\ hist.generation < 1
    /\ \E response \in LongResponses :
         Commit(search(self, "apple", response), "search")

PagingNext == SearchLong \/ FetchMore \/ CacheObject \/ TimerTimeout

PagingSpec == Init /\ [][PagingNext]_vars

\* The QTimer of ObjectCache fires every INTERVAL ms for as long as it is
\* active, and the event loop delivers each timeout to timer_timeout.
FairPagingSpec == PagingSpec /\ WF_vars(TimerTimeout)

\* The reply reports a successful request: no network error, and a body.
SuccessfulReply(error, body) == error = "NoError" /\ body # "empty"

\* The requests that the call of get_pixmap with result r passed to
\* network_manager.get: the urls it added to the requests in flight.
Requested(s, r) == SubSeq(r.state.replies, Len(s.replies) + 1,
                          Len(r.state.replies))

\* seq without its i-th element.
Remove(seq, i) == SubSeq(seq, 1, i - 1) \o SubSeq(seq, i + 1, Len(seq))

\* The urls a reply can report for the request of url: QNetworkReply.url() is
\* the url of the content downloaded, the requested one or the one that
\* redirections led to.
ReplyUrls(url) == ImageUrls

\* MainWindow.selected_row_changed -> ImageCache.get_pixmap, with the image
\* url of the selected object's document.  get_pixmap neither reads nor
\* writes the object cache.
\* image_hist counts, per url, the calls of get_pixmap and the requests they
\* issued, and keeps, per url reported by a reply, whether each reply that
\* finished was successful.
GetPixmap ==
    /\ \E url \in ImageUrls :
          /\ image_hist.calls[url] < MaxGetPixmap
          /\ LET r == get_pixmap(images, url)
             IN /\ images' = r.state
                /\ image_hist' =
                      [image_hist EXCEPT
                         !.calls[url] = @ + 1,
                         !.issued = [u \in ImageUrls |->
                                       @[u] + Cardinality(
                                          { i \in 1..Len(Requested(images, r)) :
                                              Requested(images, r)[i] = u })]]
    /\ UNCHANGED <<bad_urls, last_index, urls, objects, queue, requested_urls,
                   processed_requests, timer_count, timer_active, replies,
                   hist>>

\* The reply of an issued image request finishes -> ImageCache.cache_pixmap
CachePixmap ==
    /\ \E i \in 1..Len(images.replies), error \in ImageErrors,
          body \in ImageBodies :
          \E url \in ReplyUrls(images.replies[i]) :
             /\ images' = cache_pixmap([images EXCEPT !.replies = Remove(@, i)],
                                       url, error, body, DefaultPixmap)
             /\ image_hist' =
                   [image_hist EXCEPT
                      !.arrived[url] = Append(@, SuccessfulReply(error, body))]
    /\ UNCHANGED <<bad_urls, last_index, urls, objects, queue, requested_urls,
                   processed_requests, timer_count, timer_active, replies,
                   hist>>

ImageNext == GetPixmap \/ CachePixmap

\* The image cache on its own: the calls of get_pixmap and the replies of
\* its requests.  ImageCache and ObjectCache share no state, and the handlers
\* of one never call the other.
ImageSpec == Init /\ [][ImageNext]_vars

\* ------------------------------------------------------------------------
\* Vocabulary of the properties
\* ------------------------------------------------------------------------

AllUrls == { Url(object_id) : object_id \in ObjectIds }

\* url has a stored, non-empty document.
Resolved(url) == url \in DOMAIN objects /\ Truthy(objects[url])

\* url is in the bad set.
Bad(url) == url \in Range(bad_urls)

\* url is neither: get_object gives the empty document and the proxy model
\* has not been told to drop the row.
Unresolved(url) == ~Resolved(url) /\ ~Bad(url)

Count(f, k) == IF k \in DOMAIN f THEN f[k] ELSE 0

\* The urls of the requests in a batch, in order.
UrlsOf(requests) == [i \in 1..Len(requests) |-> requests[i].url]

\* The urls that were enqueued under batch key k.
BatchUrls(k) ==
    UNION { Range(UrlsOf(b.requests)) :
              b \in { e \in Range(hist.enqueued) : e.key = k } }

\* The batches that process_queue has popped: the queue is first in, first
\* out, so they are the first enqueued ones.
Popped == SubSeq(hist.enqueued, 1, Len(hist.enqueued) - Len(queue))

\* Batch k was popped and the reply of each of its requests has finished.
Answered(k) ==
    /\ \E i \in 1..Len(Popped) : Popped[i].key = k
    /\ \A reply \in replies : reply.key # k

\* The step is a call of ObjectsModel.search.
SearchStep == hist'.generation = hist.generation + 1

\* The step is a call of ObjectsModel.fetchMore.
FetchMoreStep == hist'.fetches = hist.fetches + 1

\* The replies whose cache_object ran in the step (one, or none).
Handled == replies \ replies'

\* The requests issued and the batches enqueued in the step.
IssuedInStep == SubSeq(hist'.issued, Len(hist.issued) + 1, Len(hist'.issued))

EnqueuedInStep ==
    SubSeq(hist'.enqueued, Len(hist.enqueued) + 1, Len(hist'.enqueued))

\* The step is a call of ObjectCache.timer_timeout: every step is one handler,
\* and the three others leave their mark in hist or in replies.
TimerStep ==
    /\ ~SearchStep
    /\ ~FetchMoreStep
    /\ Handled = {}

\* The step calls process_queue: populate does at its end, timer_timeout does
\* when it finds the period elapsed.
ProcessQueueStep ==
    \/ SearchStep /\ urls' # <<>>
    \/ TimerStep /\ timer_count = SECONDS

\* The step pops a batch from the queue.
DispatchStep == Len(Popped') > Len(Popped)

\* The reply reports a failed request: a network error, or no body.
FailedReply(error, body) == error # "NoError" \/ body = "empty"

\* The keys of the batches that fetchMore calls have enqueued.
FetchMoreKeys == { e.key : e \in { b \in Range(hist.enqueued) : b.by = "fetchMore" } }

\* The timer has run its period, the queue holds exactly the two batches
\* enqueued last, and fetchMore enqueued both since process_queue last ran:
\* the first found the queue empty, the second found the first.
TwoFetchMoreBatches(A, B) ==
    /\ A.by = "fetchMore" /\ A.ahead = 0
    /\ B.by = "fetchMore" /\ B.ahead = 1

\* The i-th enqueued batch has been popped from the queue and exactly one
\* request has been issued for each of its urls.
Dispatched(i) ==
    /\ i <= Len(Popped)
    /\ \A r \in Range(hist.enqueued[i].requests) :
          Cardinality({ q \in 1..Len(hist.issued) : hist.issued[q] = r }) = 1

\* The lookup of populate failed (raise_for_status) or found no object id.
FailedLookup(response) == ~response.ok \/ response.objectIDs = <<>>

\* The urls of the batches enqueued for the current search.
EnqueuedUrls ==
    UNION { Range(UrlsOf(e.requests)) :
              e \in { b \in Range(hist.enqueued) :
                        hist.enq_gen[b.key] = hist.generation } }

\* The requests issued since the last call of search began, in order.
IssuedThisSearch == SubSeq(hist.issued, hist.mark + 1, Len(hist.issued))

\* How many times url was enqueued for the current search.
TimesEnqueued(url) ==
    Cardinality({ p \in { <<i, j>> : i \in 1..Len(hist.enqueued),
                                     j \in 1..MaxLongIds } :
                    /\ hist.enq_gen[hist.enqueued[p[1]].key] = hist.generation
                    /\ p[2] <= Len(hist.enqueued[p[1]].requests)
                    /\ hist.enqueued[p[1]].requests[p[2]].url = url })

\* A reply is stale when its batch was enqueued for an earlier search.
Stale(reply) == hist.enq_gen[reply.key] < hist.generation

\* ------------------------------------------------------------------------
\* Properties
\* ------------------------------------------------------------------------

\* C1: in every reachable state the cursor satisfies
\* last_index + 1 <= len(urls).
C1_CursorWithinList == last_index + 1 <= Len(urls)

\* C2: a fetchMore call made with cursor c, c + 1 < N, enqueues exactly one
\* batch holding urls[c+1 : min(c+1+P, N)] in list order and sets the cursor
\* to min(c+1+P, N) - 1.
C2_FetchMoreOnePage ==
    [][ (FetchMoreStep /\ last_index + 1 < Len(urls)) =>
          LET first == last_index + 1
              lastRow == Min(first + MAX_RESULTS, Len(urls))
          IN /\ Len(EnqueuedInStep) = 1
             /\ Len(queue') = Len(queue) + 1
             /\ UrlsOf(queue'[Len(queue')]) = Slice(urls, first, lastRow)
             /\ last_index' = lastRow - 1 ]_vars

\* C3: a fetchMore call made when nothing is left to page (the cursor is at
\* or past the last index) changes neither the cursor, the queue, the batch
\* table nor the requested-url list, and enqueues no batch.
C3_FetchMoreNoOpAtEnd ==
    [][ (FetchMoreStep /\ last_index + 1 >= Len(urls)) =>
          /\ UNCHANGED <<last_index, queue, processed_requests, requested_urls>>
          /\ EnqueuedInStep = <<>> ]_vars

\* C4: in every step that is not a start-search, a resolved url stays
\* resolved and does not become bad, and a bad url stays bad and does not
\* become resolved.
C4_UrlStateOnlyAdvances ==
    [][ ~SearchStep =>
          \A url \in AllUrls :
             /\ Resolved(url) => (Resolved(url)' /\ ~Bad(url)')
             /\ Bad(url) => (Bad(url)' /\ ~Resolved(url)') ]_vars

\* C5: requests_finished is emitted at most once per batch, only when every
\* url of the batch is resolved or bad, and it has been emitted once all the
\* replies of an enqueued batch have finished.
C5_BatchCompleteExactlyOnce ==
    [][ \A k \in DOMAIN processed_requests' :
          /\ Count(hist'.finished, k) <= 1
          /\ Count(hist'.finished, k) > Count(hist.finished, k) =>
                \A url \in BatchUrls(k)' : Resolved(url)' \/ Bad(url)'
          /\ Answered(k)' => Count(hist'.finished, k) = 1 ]_vars

\* C6: immediately after a start-search, no url is in bad_urls and no url
\* has a non-empty document.
C6_SearchClearsBadAndResolved ==
    [][ SearchStep =>
          /\ bad_urls' = <<>>
          /\ \A url \in DOMAIN objects' : ~Truthy(objects'[url]) ]_vars

\* C7: the reply of a request enqueued for an earlier search changes neither
\* the document store, the bad set nor a batch counter, and emits neither
\* cache_updated nor requests_finished.
C7_StaleReplyDropped ==
    [][ \A reply \in Handled :
          Stale(reply) =>
             /\ UNCHANGED <<objects, bad_urls, processed_requests>>
             /\ hist'.updated = hist.updated
             /\ hist'.finished = hist.finished ]_vars

\* C8: after a start-search the queue holds no batch enqueued for an earlier
\* search, processed_requests has no entry of an earlier search and the
\* timer count is 0.
C8_SearchClearsQueueAndTable ==
    [][ SearchStep =>
          /\ \A i \in 1..Len(queue') : \A j \in 1..Len(queue'[i]) :
                hist'.enq_gen[queue'[i][j].key] = hist'.generation
          /\ \A k \in DOMAIN processed_requests' \ {0} :
                hist'.enq_gen[k] = hist'.generation
          /\ timer_count' = 0 ]_vars

\* C9: a start-search whose lookup gives a non-empty list issues, in the same
\* step, exactly the requests for urls[0 : min(P, N)] of the new search.
C9_SearchDispatchesOwnFirstPage ==
    [][ (SearchStep /\ urls' # <<>>) =>
          UrlsOf(IssuedInStep) = Slice(urls', 0, MAX_RESULTS) ]_vars

\* C10: if batch A was enqueued before batch B, every request of A is issued
\* before any request of B; the queue holds, in order, the batches not yet
\* popped.
C10_FifoDispatch ==
    /\ Len(queue) <= Len(hist.enqueued)
    /\ queue = [i \in 1..Len(queue) |->
                  hist.enqueued[Len(hist.enqueued) - Len(queue) + i].requests]
    /\ \A a, b \in 1..Len(hist.enqueued) :
          a < b =>
            \A q \in 1..Len(hist.issued) :
               hist.issued[q] \in Range(hist.enqueued[b].requests) =>
                  \A r \in Range(hist.enqueued[a].requests) :
                     \E p \in 1..(q - 1) : hist.issued[p] = r

\* C10 witness: batch B was enqueued while batch A was waiting in the queue,
\* both have been issued, and a reply of B has finished while a reply of A
\* is still outstanding.
C10_Witness ==
    \E i \in 2..Len(hist.enqueued) :
       LET A == hist.enqueued[i - 1]
           B == hist.enqueued[i]
       IN /\ B.ahead >= 1
          /\ \E a \in Range(A.requests) : a \in replies
          /\ \E b \in Range(B.requests) :
                b \in Range(hist.issued) /\ b \notin replies

\* C11: when a request of a batch fails (not found, forbidden, another network
\* error, or an empty body), its url is put in bad_urls, the documents and the
\* queue are untouched, each other outstanding request of the batch still
\* gets its document stored when its reply arrives, and requests_finished is
\* emitted when the failed reply was the last one of the batch.
C11_FailureIsolated ==
    \A reply \in replies, error \in NetworkErrors, body \in Bodies :
       FailedReply(error, body) =>
          LET s == cache_object(self, reply, error, body)
              siblings == { other \in s.replies : other.key = reply.key }
          IN /\ reply.url \in Range(s.bad_urls)
             /\ s.objects = objects
             /\ s.queue = queue
             /\ s.replies = replies \ {reply}
             /\ \A other \in siblings :
                   LET t == cache_object(s, other, "NoError", "json")
                   IN /\ t.objects[other.url] = Document(other.url)
                      /\ reply.url \in Range(t.bad_urls)
             /\ siblings = {} =>
                   Emitted(s.signals, "requests_finished", reply.key) = 1

\* C12, as stated: when the timer reaches the period and the queue is empty,
\* the timer is stopped, so that no timer_progress is emitted until the next
\* enqueue.
C12_TimerStopsWhenIdle ==
    [][ (TimerStep /\ timer_count = SECONDS /\ queue = <<>>) =>
          ~timer_active' ]_vars

\* C12, amended: when the timer reaches the period and the queue is empty,
\* process_queue issues no request and restarts the timer at count 0; a
\* running timer is never stopped for good, so timer_progress keeps being
\* emitted whether or not a batch is enqueued.
C12_TimerRestartsWhenIdle ==
    [][ /\ timer_active => timer_active'
        /\ (TimerStep /\ timer_count = SECONDS /\ queue = <<>>) =>
              /\ timer_active'
              /\ timer_count' = 0
              /\ queue' = <<>>
              /\ IssuedInStep = <<>>
              /\ hist'.tick.progress # <<>> ]_vars

\* C12 witness: the last tick found the period elapsed and the queue empty,
\* and the timer is running again from 0.
C12_Witness ==
    /\ hist.tick.elapsed = SECONDS
    /\ hist.tick.queued = 0
    /\ hist.tick.progress # <<>>
    /\ timer_active
    /\ timer_count = 0
    /\ queue = <<>>

C14_DispatchOnPeriodTick ==
    [][ TimerStep =>
          /\ (timer_count + 1 = SECONDS /\ queue # <<>>) =>
                /\ queue' = Tail(queue)
                /\ IssuedInStep = Head(queue)
                /\ hist'.tick.progress = <<0>>
          /\ queue' # queue =>
                /\ timer_count + 1 = SECONDS
                /\ hist'.tick.progress = <<0>> ]_vars

\* C15: a fetchMore call issues no request: the batch it enqueues is appended
\* to the queue and stays there; and a request of a batch enqueued by
\* fetchMore is only ever issued by a timer_timeout step.
C15_FetchMoreNeverDispatches ==
    [][ /\ FetchMoreStep =>
              /\ IssuedInStep = <<>>
              /\ replies' = replies
              /\ queue' = queue \o [i \in 1..Len(EnqueuedInStep) |->
                                      EnqueuedInStep[i].requests]
        /\ \A i \in 1..Len(IssuedInStep) :
              IssuedInStep[i].key \in FetchMoreKeys => TimerStep ]_vars

\* C16, as stated: when two fetchMore calls have enqueued batches A and B in
\* the same timer period, the expiry of that period issues the requests of
\* both and leaves neither in the queue.
C16_BothAtNextExpiry ==
    [][ (TimerStep /\ timer_count = SECONDS /\ Len(queue) = 2) =>
          LET n == Len(hist.enqueued)
              A == hist.enqueued[n - 1]
              B == hist.enqueued[n]
          IN TwoFetchMoreBatches(A, B) =>
                /\ queue' = <<>>
                /\ IssuedInStep = A.requests \o B.requests ]_vars

\* C16, amended: the expiry of that period issues the requests of A only and
\* leaves B at the head of the queue; every expiry that finds a batch queued
\* pops exactly the head and issues it, so B goes out at a later expiry, and
\* no step pops more than one batch.
C16_OneBatchPerExpiry ==
    [][ /\ Len(queue') >= Len(queue) - 1
        /\ (TimerStep /\ timer_count = SECONDS /\ queue # <<>>) =>
              /\ queue' = Tail(queue)
              /\ IssuedInStep = Head(queue)
        /\ (TimerStep /\ timer_count = SECONDS /\ Len(queue) = 2) =>
              LET n == Len(hist.enqueued)
                  A == hist.enqueued[n - 1]
                  B == hist.enqueued[n]
              IN TwoFetchMoreBatches(A, B) =>
                    /\ queue' = <<B.requests>>
                    /\ IssuedInStep = A.requests ]_vars

\* C16 witness: the last tick found the period elapsed and two non-empty
\* fetchMore batches of that period queued; the first has been issued, the
\* second is still queued and none of its requests has been issued.
C16_Witness ==
    /\ hist.tick.elapsed = SECONDS
    /\ hist.tick.queued = 2
    /\ timer_count = 0
    /\ Len(queue) = 1
    /\ LET n == Len(hist.enqueued)
           A == hist.enqueued[n - 1]
           B == hist.enqueued[n]
       IN /\ TwoFetchMoreBatches(A, B)
          /\ A.requests # <<>> /\ B.requests # <<>>
          /\ queue = <<B.requests>>
          /\ Range(A.requests) \subseteq Range(hist.issued)
          /\ Range(B.requests) \cap Range(hist.issued) = {}

\* C17: if the timer keeps ticking, every batch that is enqueued, by search or
\* by fetchMore, is eventually popped from the queue with one request issued
\* for each of its urls.
C17_EveryBatchDispatched ==
    \A i \in 1..(MaxSearches + MaxFetchMore) :
       (Len(hist.enqueued) >= i) ~> Dispatched(i)

\* C17 witness: a batch that fetchMore enqueued behind another queued batch
\* has been popped and its requests issued.
C17_Witness ==
    \E i \in 1..Len(hist.enqueued) :
       /\ hist.enqueued[i].by = "fetchMore"
       /\ hist.enqueued[i].ahead >= 1
       /\ hist.enqueued[i].requests # <<>>
       /\ Dispatched(i)

\* C18: in whatever state a search is started, if its lookup fails or returns
\* no id, then afterwards the url list is empty, the cursor is -1, the
\* document store is empty, no batch was enqueued, no request was issued and
\* process_queue was not called (queue and timer are as they were).
C18_FailedLookupLeavesNothing ==
    \A response \in Responses :
       FailedLookup(response) =>
          LET s == search(self, "apple", response)
          IN /\ s.urls = <<>>
             /\ s.last_index = -1
             /\ DOMAIN s.objects = {}
             /\ s.batches = <<>>
             /\ s.issued = <<>>
             /\ s.queue = queue
             /\ s.replies = replies
             /\ s.timer_count = timer_count
             /\ s.timer_active = timer_active

\* C19: in every reachable state each url is in at most one of the states
\* unresolved, resolved and bad: no url is both in bad_urls and mapped to a
\* non-empty document.
C19_OneStatePerUrl ==
    \A url \in AllUrls :
       Cardinality({ st \in {"unresolved", "resolved", "bad"} :
                       \/ st = "unresolved" /\ Unresolved(url)
                       \/ st = "resolved" /\ Resolved(url)
                       \/ st = "bad" /\ Bad(url) }) <= 1

\* C20: in every reachable state the urls enqueued for the current search are
\* exactly the urls at the indices 0..last_index of the url list (the indices
\* that exist, should the cursor lie beyond the list): no index at or below
\* the cursor was skipped.
C20_AdmittedIsPrefix ==
    EnqueuedUrls = Range(SubSeq(urls, 1, Min(last_index + 1, Len(urls))))

\* C21: every fetchMore call that computes a slice computes bounds with
\* 0 <= first <= last <= len(urls), so that the rows first .. last-1 it
\* passes to beginInsertRows lie inside the url list.
C21_SliceWithinList ==
    [][ (FetchMoreStep /\ SliceBounds(self).first # Len(urls)) =>
          /\ 0 <= SliceBounds(self).first
          /\ SliceBounds(self).first <= SliceBounds(self).last
          /\ SliceBounds(self).last <= Len(urls) ]_vars

\* C22: between two consecutive calls of search at most one request is issued
\* for any url, and no request is issued for a url that is in bad_urls.
C22_NoRefetchNoRetry ==
    [][ /\ \A i, j \in 1..Len(IssuedThisSearch') :
              IssuedThisSearch'[i].url = IssuedThisSearch'[j].url => i = j
        /\ \A i \in 1..Len(IssuedInStep) : ~Bad(IssuedInStep[i].url) ]_vars

\* C23: no step other than a call of search lowers last_index; a call of
\* search sets it to -1 before populate admits the first page, so that it
\* ends at the size of that page minus one; it is never below -1.
C23_CursorOnlyResetBySearch ==
    [][ /\ ~SearchStep => last_index' >= last_index
        /\ SearchStep =>
              last_index' = -1 + Len(Slice(urls', 0, MAX_RESULTS))
        /\ last_index' >= -1 ]_vars

\* C23 witness: fetchMore had advanced the cursor by a non-empty page, and a
\* later search, whose lookup found nothing, has put it back to -1.
C23_Witness ==
    /\ last_index = -1
    /\ \E i \in 1..Len(hist.enqueued) :
          /\ hist.enqueued[i].by = "fetchMore"
          /\ hist.enqueued[i].requests # <<>>

\* C24: in every reachable state and for every url, get_object returns the
\* stored document, or the empty document when none is stored, issues no
\* request and leaves the document store, the bad set, the queue, the batch
\* table, the cursor and the timer as they are.
C24_GetObjectPureRead ==
    \A url \in AllUrls :
       LET got == get_object(self, url)
       IN /\ url \in DOMAIN objects => got.result = objects[url]
          /\ url \notin DOMAIN objects => got.result = EmptyDocument
          /\ got.state.issued = <<>>
          /\ got.state.replies = replies
          /\ got.state.objects = objects
          /\ got.state.bad_urls = bad_urls
          /\ got.state.queue = queue
          /\ got.state.processed_requests = processed_requests
          /\ got.state.requested_urls = requested_urls
          /\ got.state.last_index = last_index
          /\ got.state.timer_count = timer_count
          /\ got.state.timer_active = timer_active

\* C24 witness: one url has a document, which get_object returns, another
\* has no entry in the store, and get_object gives the empty document for it.
C24_Witness ==
    /\ \E url \in DOMAIN objects :
          /\ Truthy(objects[url])
          /\ get_object(self, url).result = Document(url)
    /\ \E url \in AllUrls \ DOMAIN objects :
          get_object(self, url).result = EmptyDocument

\* C25: whatever the outcome of a request (a body with or without an error,
\* no body, a body that is not a document), cache_object ends without
\* raising, with the url resolved or in bad_urls and with the count of the
\* batch incremented by exactly one.
C25_EveryOutcomeAbsorbed ==
    \A reply \in replies, error \in NetworkErrors, body \in Bodies :
       LET s == cache_object(self, reply, error, body)
       IN /\ ReplyOutcome(error, body) # "raise"
          /\ \/ Truthy(s.objects[reply.url])
             \/ reply.url \in Range(s.bad_urls)
          /\ s.processed_requests[reply.key].count =
                processed_requests[reply.key].count + 1

\* C26: a step that calls process_queue leaves the timer running and no step
\* stops a running timer; if the timer keeps ticking then, unless it is never
\* started, timer_timeout calls process_queue again infinitely often, whether
\* or not the queue is empty.
C26_PacingNeverEnds ==
    /\ [][ /\ ProcessQueueStep => timer_active'
           /\ timer_active => timer_active' ]_vars
    /\ \/ [](~timer_active)
       \/ []<><<TimerStep /\ timer_count = SECONDS>>_vars

\* C26 witness: the last tick found the period elapsed and a batch queued; it
\* called process_queue, and the timer is running again from 0.
C26_Witness ==
    /\ hist.tick.elapsed = SECONDS
    /\ hist.tick.queued >= 1
    /\ timer_active
    /\ timer_count = 0

\* C27: a step pops at most one batch; a step that pops one leaves the timer
\* running with count 0; the count then grows by one per tick and by nothing
\* else, and timer_timeout pops a batch only when it finds the count equal to
\* SECONDS: a dispatch by the timer comes at least SECONDS ticks after the
\* dispatch before it.
C27_ThrottledByTimer ==
    [][ /\ Len(Popped') <= Len(Popped) + 1
        /\ DispatchStep => (timer_active' /\ timer_count' = 0)
        /\ (TimerStep /\ DispatchStep) => timer_count = SECONDS
        /\ TimerStep => \/ timer_count' = timer_count + 1
                        \/ timer_count = SECONDS /\ timer_count' = 0
        /\ ~TimerStep => timer_count' \in {timer_count, 0} ]_vars

\* C27 witness: a second batch has been popped, by a tick that found the
\* period elapsed and the batch queued, and its requests are issued.
C27_Witness ==
    /\ Len(Popped) >= 2
    /\ Popped[Len(Popped)].requests # <<>>
    /\ Range(Popped[Len(Popped)].requests) \subseteq Range(hist.issued)
    /\ hist.tick.elapsed = SECONDS
    /\ hist.tick.queued = Len(queue) + 1
    /\ timer_count = 0

\* C28: in every reachable state the count of the timer is in 0..SECONDS; it
\* is 0 while the timer is stopped, and it is 0 after Timer.start, after
\* Timer.stop and after process_queue, the caller of start, whatever the
\* count was.
C28_CountWithinPeriod ==
    /\ timer_count \in 0..SECONDS
    /\ ~timer_active => timer_count = 0
    /\ TimerStart(self).timer_count = 0
    /\ TimerStop(self).timer_count = 0
    /\ process_queue(self).timer_count = 0

\* C28 witness: the last tick had brought the count above 0, and a start of
\* the timer since then (by a search) has put it back to 0.
C28_Witness ==
    /\ hist.tick.progress # <<>>
    /\ hist.tick.elapsed < SECONDS
    /\ timer_active
    /\ timer_count = 0

\* C29, as stated: in every reachable state every key of the document store,
\* the keys mapped to an empty document included, is in requested_urls.
C29_EntryOnlyIfRequested ==
    DOMAIN objects \subseteq Range(requested_urls)

\* C29, amended: in every reachable state every url with a non-empty
\* document is in requested_urls, and every requested url has an entry; the
\* urls of the result list all have an entry, empty until a document
\* arrives, whether or not they have been requested.
C29_DocumentOnlyIfRequested ==
    /\ \A url \in DOMAIN objects :
          Truthy(objects[url]) => url \in Range(requested_urls)
    /\ Range(requested_urls) \subseteq DOMAIN objects
    /\ Range(urls) \subseteq DOMAIN objects

\* C29 witness: a url of the result list that was never requested has an
\* empty entry, next to a requested url whose document has arrived.
C29_Witness ==
    /\ \E url \in Range(urls) \ Range(requested_urls) :
          url \in DOMAIN objects /\ objects[url] = EmptyDocument
    /\ \E url \in Range(requested_urls) : Resolved(url)

\* C30: paging by fetchMore whenever canFetchMore is true covers the list: no
\* url of the list is enqueued twice for the search, and canFetchMore is
\* false only when every url of the list has been enqueued, once.
C30_PagingCoversList ==
    /\ \A url \in Range(urls) : TimesEnqueued(url) <= 1
    /\ ~canFetchMore(self) =>
          \A url \in Range(urls) : TimesEnqueued(url) = 1

\* How many of the requests issued under batch key k have had their reply
\* finish: each issued request gets one reply, handled by cache_object.
Completed(k) ==
    Cardinality({ i \in 1..Len(hist.issued) :
                    hist.issued[i].key = k /\ hist.issued[i] \notin replies })

\* C31: for every batch key of the batch table, 0 <= count <= total, and
\* count is the number of replies that have completed for the requests
\* tagged with the key.
C31_CountIsCompleted ==
    \A k \in DOMAIN processed_requests :
       /\ 0 <= processed_requests[k].count
       /\ processed_requests[k].count <= processed_requests[k].total
       /\ processed_requests[k].count = Completed(k)

\* C33: each enqueue creates one new batch whose key is not in the batch
\* table and is greater than every key in it, registers the number of its
\* urls as total with count 0, and appends the batch at the tail of the queue
\* (process_queue, when the same handler calls it next, pops the head); no
\* key is used for two batches.
C33_FreshKeyPerBatch ==
    /\ [][ /\ Len(EnqueuedInStep) <= 1
           /\ \A i \in 1..Len(EnqueuedInStep) :
                 LET batch == EnqueuedInStep[i]
                     appended == Append(queue, batch.requests)
                 IN /\ batch.key \notin DOMAIN processed_requests
                    /\ \A k \in DOMAIN processed_requests : batch.key > k
                    /\ \A r \in Range(batch.requests) : r.key = batch.key
                    /\ batch.key \in DOMAIN processed_requests'
                    /\ processed_requests'[batch.key] =
                          [count |-> 0, total |-> Len(batch.requests)]
                    /\ \A k \in DOMAIN processed_requests :
                          processed_requests'[k] = processed_requests[k]
                    /\ \/ queue' = appended
                       \/ ProcessQueueStep /\ queue' = Tail(appended) ]_vars
    /\ [](\A i, j \in 1..Len(hist.enqueued) :
             i # j => hist.enqueued[i].key # hist.enqueued[j].key)

\* Four batches were enqueued, one of them behind a batch that was still
\* waiting in the queue, and two batches wait now.
C33_Witness ==
    /\ Len(hist.enqueued) = 4
    /\ \E i \in 1..Len(hist.enqueued) :
          hist.enqueued[i].ahead >= 1 /\ hist.enqueued[i].requests # <<>>
    /\ Len(queue) = 2
    /\ \E k \in DOMAIN processed_requests : processed_requests[k].count > 0

\* C32: the image cache issues at most one network request per image url.
\* The first get_pixmap(url) issues one request, for url, and returns the
\* default pixmap; every later get_pixmap(url) issues none and changes
\* nothing, and returns the default pixmap as long as no successful reply
\* has stored a pixmap under url, after failed replies included; what it
\* returns otherwise is a pixmap made from the body of a reply.
C32_OneRequestPerImage ==
    \A url \in ImageUrls :
       LET r == get_pixmap(images, url)
           arrived == image_hist.arrived[url]
       IN /\ image_hist.issued[url] <= 1
          /\ image_hist.calls[url] = 0 =>
                /\ Requested(images, r) = <<url>>
                /\ r.result = DefaultPixmap
          /\ image_hist.calls[url] > 0 =>
                /\ Requested(images, r) = <<>>
                /\ r.state = images
                /\ (\A i \in 1..Len(arrived) : ~arrived[i]) =>
                      r.result = DefaultPixmap
                /\ r.result # DefaultPixmap =>
                      r.result \in { Pixmap(url, body) :
                                       body \in ImageBodies \ {"empty"} }

\* get_pixmap was called more than once for each of two urls; the reply for
\* one was successful and get_pixmap returns the image it stored, the reply
\* for the other failed and get_pixmap returns the default pixmap.
C32_Witness ==
    \E u, v \in ImageUrls :
       /\ image_hist.calls[u] >= 2 /\ image_hist.calls[v] >= 2
       /\ image_hist.arrived[u] = <<TRUE>>
       /\ get_pixmap(images, u).result = Pixmap(u, "image")
       /\ image_hist.arrived[v] = <<FALSE>>
       /\ v \in Range(images.bad_urls)
       /\ get_pixmap(images, v).result = DefaultPixmap
       /\ images.replies = <<>>

====
